---- MODULE Spec2Model ----
(***************************************************************************)
(* A model of sasmodels/models/spherical_sld.c: form_volume, blend,        *)
(* f_linear and Iq.                                                        *)
(*                                                                         *)
(* A double is modelled by its exact real value together with the IEEE     *)
(* special values the code can produce (not-a-number, signed infinity).    *)
(* A finite value is a polynomial with rational coefficients in the        *)
(* values of the external primitives (M_4PI_3, sph_j1c, sin, cos, sas_erf, *)
(* expm1, pow), which are kept as symbols where they have no rational      *)
(* value.  Rounding is not modelled.                                       *)
(***************************************************************************)
EXTENDS Integers, FiniteSets, Sequences, TLC

VARIABLES in, st, fv, fl

vars == <<in, st, fv, fl>>

(***************************************************************************)
(* Rationals <<n, d>> with d > 0 in lowest terms.                          *)
(***************************************************************************)
Abs(n) == IF n < 0 THEN -n ELSE n

RECURSIVE GCD(_, _)
GCD(a, b) == IF b = 0 THEN a ELSE GCD(b, a % b)

Rat(n, d) ==
    LET g == GCD(Abs(n), Abs(d))
        s == IF d < 0 THEN -1 ELSE 1
    IN  <<(s * n) \div g, (s * d) \div g>>

R0 == <<0, 1>>
R1 == <<1, 1>>
RInt(n) == <<n, 1>>
RAdd(a, b) ==
    LET g == GCD(a[2], b[2])
    IN  Rat(a[1] * (b[2] \div g) + b[1] * (a[2] \div g), (a[2] \div g) * b[2])
RNeg(a) == <<-a[1], a[2]>>
RMul(a, b) ==
    LET x == Rat(a[1], b[2])
        y == Rat(b[1], a[2])
    IN  <<x[1] * y[1], x[2] * y[2]>>
RDiv(a, b) == RMul(a, IF b[1] < 0 THEN <<-b[2], -b[1]>> ELSE <<b[2], b[1]>>)
RLeq(a, b) == a[1] * b[2] <= b[1] * a[2]

(***************************************************************************)
(* Monomials: a set of <<symbol, exponent>> pairs, exponent # 0.           *)
(* A symbol is <<name, a, b, c, d>>, the primitive and its argument.       *)
(***************************************************************************)
MOne == {}
MExp(m, a) == IF \E p \in m : p[1] = a THEN (CHOOSE p \in m : p[1] = a)[2] ELSE 0
MMul(m1, m2) ==
    LET syms == {p[1] : p \in m1 \cup m2}
    IN  {<<a, MExp(m1, a) + MExp(m2, a)>> :
            a \in {b \in syms : MExp(m1, b) + MExp(m2, b) # 0}}
MInv(m) == {<<p[1], -p[2]>> : p \in m}

(***************************************************************************)
(* Polynomials: a function from monomials to nonzero rationals.            *)
(***************************************************************************)
PZero == [m \in {} |-> R0]
PConst(c) == IF c[1] = 0 THEN PZero ELSE (MOne :> c)
PSym(a) == ({<<a, 1>>} :> R1)
PCoef(p, m) == IF m \in DOMAIN p THEN p[m] ELSE R0
PAdd(p, q) ==
    LET D == DOMAIN p \cup DOMAIN q
    IN  [m \in {x \in D : RAdd(PCoef(p, x), PCoef(q, x))[1] # 0} |->
            RAdd(PCoef(p, m), PCoef(q, m))]
PScale(p, c) == IF c[1] = 0 THEN PZero ELSE [m \in DOMAIN p |-> RMul(p[m], c)]

RECURSIVE SumPairs(_, _, _)
SumPairs(S, p, q) ==
    IF S = {} THEN R0
    ELSE LET x == CHOOSE y \in S : TRUE
         IN  RAdd(RMul(p[x[1]], q[x[2]]), SumPairs(S \ {x}, p, q))

PMul(p, q) ==
    LET pairs == (DOMAIN p) \X (DOMAIN q)
        M == {MMul(x[1], x[2]) : x \in pairs}
        c(m) == SumPairs({x \in pairs : MMul(x[1], x[2]) = m}, p, q)
    IN  [m \in {x \in M : c(x)[1] # 0} |-> c(m)]

PIsConst(p) == DOMAIN p \subseteq {MOne}
PRat(p) == PCoef(p, MOne)
PIsTerm(p) == Cardinality(DOMAIN p) = 1
\* the inverse of a one-term polynomial
PInv(p) ==
    LET m == CHOOSE x \in DOMAIN p : TRUE
    IN  (MInv(m) :> RDiv(R1, p[m]))
\* the rational c with p = c * q, or 0 when there is none
PRatio(p, q) ==
    IF DOMAIN p # DOMAIN q \/ DOMAIN p = {} THEN R0
    ELSE LET m == CHOOSE x \in DOMAIN p : TRUE
             c == RDiv(p[m], q[m])
         IN  IF \A k \in DOMAIN p : p[k] = RMul(c, q[k]) THEN c ELSE R0

(***************************************************************************)
(* Doubles: k = "fin" with the polynomial v, k = "inf" with v a nonzero    *)
(* polynomial whose sign is the sign of the infinity, or k = "nan".        *)
(***************************************************************************)
NaN == [k |-> "nan", v |-> PZero]
Fin(p) == [k |-> "fin", v |-> p]
\* the sign polynomial is scaled to make one chosen coefficient 1 or -1
Inf(s) ==
    LET c == s[CHOOSE m \in DOMAIN s : TRUE]
    IN  [k |-> "inf", v |-> PScale(s, <<c[2], Abs(c[1])>>)]
Num(n) == Fin(PConst(RInt(n)))
Frac(n, d) == Fin(PConst(Rat(n, d)))
IsNaN(a) == a.k = "nan"
IsFinite(a) == a.k = "fin"
IsZero(a) == a.k = "fin" /\ a.v = PZero
IsRat(a) == a.k = "fin" /\ PIsConst(a.v)
RatOf(a) == PRat(a.v)

VNeg(a) == [k |-> a.k, v |-> PScale(a.v, RInt(-1))]

VAdd(a, b) ==
    CASE a.k = "nan" \/ b.k = "nan" -> NaN
      [] a.k = "fin" /\ b.k = "fin" -> Fin(PAdd(a.v, b.v))
      [] a.k = "inf" /\ b.k = "fin" -> a
      [] a.k = "fin" /\ b.k = "inf" -> b
      [] a.k = "inf" /\ b.k = "inf" /\ PRatio(a.v, b.v)[1] > 0 -> a
      [] a.k = "inf" /\ b.k = "inf" /\ PRatio(a.v, b.v)[1] < 0 -> NaN

VSub(a, b) == VAdd(a, VNeg(b))

VMul(a, b) ==
    CASE a.k = "nan" \/ b.k = "nan" -> NaN
      [] a.k = "fin" /\ b.k = "fin" -> Fin(PMul(a.v, b.v))
      [] IsZero(a) \/ IsZero(b) -> NaN
      [] OTHER -> Inf(PMul(a.v, b.v))

VDiv(a, b) ==
    CASE a.k = "nan" \/ b.k = "nan" -> NaN
      [] a.k = "inf" /\ b.k = "inf" -> NaN
      [] a.k = "fin" /\ b.k = "inf" -> Fin(PZero)
      [] IsZero(a) /\ IsZero(b) -> NaN
      [] IsZero(b) -> Inf(a.v)
      [] a.k = "inf" /\ PIsTerm(b.v) -> Inf(PMul(a.v, b.v))
      [] a.k = "fin" /\ PIsTerm(b.v) -> Fin(PMul(a.v, PInv(b.v)))

(***************************************************************************)
(* The external primitives.                                                *)
(***************************************************************************)
Sym(name, x, y) == Fin(PSym(<<name, x[1], x[2], y[1], y[2]>>))

M_4PI_3 == Sym("M_4PI_3", R0, R0)

cube(x) == VMul(VMul(x, x), x)

\* sph_j1c(x) = 3 j1(x)/x: even in x, 1 at x = 0
sph_j1c(x) ==
    CASE IsNaN(x) -> NaN
      [] IsRat(x) /\ RatOf(x)[1] = 0 -> Num(1)
      [] IsRat(x) /\ RatOf(x)[1] # 0 ->
            Sym("sph_j1c", <<Abs(RatOf(x)[1]), RatOf(x)[2]>>, R0)

\* SINCOS(x, s, c): sin is odd and 0 at 0, cos is even and 1 at 0
sin(x) ==
    CASE IsNaN(x) -> NaN
      [] IsRat(x) /\ RatOf(x)[1] = 0 -> Num(0)
      [] IsRat(x) /\ RatOf(x)[1] > 0 -> Sym("sin", RatOf(x), R0)
      [] IsRat(x) /\ RatOf(x)[1] < 0 -> VNeg(Sym("sin", RNeg(RatOf(x)), R0))

cos(x) ==
    CASE IsNaN(x) -> NaN
      [] IsRat(x) /\ RatOf(x)[1] = 0 -> Num(1)
      [] IsRat(x) /\ RatOf(x)[1] # 0 ->
            Sym("cos", <<Abs(RatOf(x)[1]), RatOf(x)[2]>>, R0)

(***************************************************************************)
(* f_linear                                                                *)
(***************************************************************************)
f_linear(q, r, contrast, slope) ==
    LET qr == VMul(q, r)
        qrsq == VMul(qr, qr)
        bes == sph_j1c(qr)
        sinqr == sin(qr)
        cosqr == cos(qr)
        fun == VDiv(VMul(VMul(Num(3), r),
                         VSub(VMul(VMul(Num(2), qr), sinqr),
                              VMul(VSub(qrsq, Num(2)), cosqr))),
                    VMul(qrsq, qrsq))
        vol == VMul(M_4PI_3, cube(r))
    IN  VMul(vol, VAdd(VMul(bes, contrast), VMul(fun, slope)))

(***************************************************************************)
(* The sharpness nu is kept as a decimal <<m, e>> = m * 10^e with one      *)
(* digit m in -9..9 (e = 0 when m = 0): 1.e-14 does not fit a rational of  *)
(* machine integers.                                                       *)
(***************************************************************************)
fabs(a) == <<Abs(a[1]), a[2]>>
\* a < b for a, b >= 0
DLess(a, b) ==
    IF b[1] = 0 THEN FALSE
    ELSE IF a[1] = 0 THEN TRUE
    ELSE a[2] < b[2] \/ (a[2] = b[2] /\ a[1] < b[1])
fmax(a, b) == IF DLess(a, b) THEN b ELSE a
NuFloor == <<1, -14>>

RECURSIVE RPow(_, _)
RPow(z, n) == IF n = 0 THEN R1 ELSE RMul(z, RPow(z, n - 1))

\* sas_erf(nu * M_SQRT1_2 * t) for a rational t: erf is odd and 0 at 0
sas_erf(nu, t) ==
    CASE t[1] = 0 \/ nu[1] = 0 -> Num(0)
      [] t[1] > 0 /\ nu[1] # 0 -> Sym("sas_erf", nu, t)
      [] t[1] < 0 /\ nu[1] # 0 -> VNeg(Sym("sas_erf", nu, RNeg(t)))

\* expm1(nu * t) for a rational t: 0 at 0
expm1(nu, t) ==
    IF t[1] = 0 \/ nu[1] = 0 THEN Num(0) ELSE Sym("expm1", nu, t)

\* pow(z, nu) for a rational z in [0, 1] and nu > 0
pow(z, nu) ==
    CASE z = R1 -> Num(1)
      [] z = R0 /\ nu[1] > 0 -> Num(0)
      [] z = R0 /\ nu[1] = 0 -> Num(1)
      [] z \notin {R0, R1} /\ nu[2] = 0 /\ nu[1] >= 0 -> Fin(PConst(RPow(z, nu[1])))
      [] z \notin {R0, R1} /\ ~(nu[2] = 0 /\ nu[1] >= 0) -> Sym("pow", z, nu)

(***************************************************************************)
(* blend                                                                   *)
(***************************************************************************)
\* blend with an unknown shape answered by 0 instead of NAN
blend_UnknownIsZero(shape, nu, z) ==
    IF shape = 0 THEN
        VAdd(VDiv(sas_erf(nu, RAdd(RMul(RInt(2), RatOf(z)), RInt(-1))),
                  VMul(Num(2), sas_erf(nu, R1))), Frac(1, 2))
    ELSE IF shape = 1 THEN pow(RatOf(z), nu)
    ELSE IF shape = 2 THEN VSub(Num(1), pow(RAdd(R1, RNeg(RatOf(z))), nu))
    ELSE IF shape = 3 THEN VDiv(expm1(nu, RNeg(RatOf(z))), expm1(nu, RInt(-1)))
    ELSE IF shape = 4 THEN VDiv(expm1(nu, RatOf(z)), expm1(nu, R1))
    ELSE Num(0)

blend(shape, nu, z) ==
    IF shape = 0 THEN
        LET num == sas_erf(nu, RAdd(RMul(RInt(2), RatOf(z)), RInt(-1)))
            denom == VMul(Num(2), sas_erf(nu, R1))
        IN  VAdd(VDiv(num, denom), Frac(1, 2))
    ELSE IF shape = 1 THEN
        pow(RatOf(z), nu)
    ELSE IF shape = 2 THEN
        VSub(Num(1), pow(RAdd(R1, RNeg(RatOf(z))), nu))
    ELSE IF shape = 3 THEN
        VDiv(expm1(nu, RNeg(RatOf(z))), expm1(nu, RInt(-1)))
    ELSE IF shape = 4 THEN
        VDiv(expm1(nu, RatOf(z)), expm1(nu, R1))
    ELSE
        NaN

(***************************************************************************)
(* A call of f_linear on its own.                                          *)
(***************************************************************************)
QValues == {Frac(0, 1), Frac(1, 2), Frac(1, 1)}
RValues == {Frac(0, 1), Frac(1, 2), Frac(1, 1), Frac(3, 2), Frac(2, 1)}
SldValues == {Num(-1), Num(0), Num(1), Num(2)}
SlopeValues == {Num(-1), Num(0), Frac(1, 2)}

FlIdle == [pc |-> "idle", q |-> Num(0), r |-> Num(0), contrast |-> Num(0),
           slope |-> Num(0), ret |-> Num(0)]

FlInit ==
    /\ in = <<>>
    /\ st = <<>>
    /\ fv = <<>>
    /\ \E q \in QValues, r \in RValues, c \in SldValues, s \in SlopeValues :
          fl = [pc |-> "call", q |-> q, r |-> r, contrast |-> c, slope |-> s,
                ret |-> Num(0)]

FLinearCall ==
    /\ fl.pc = "call"
    /\ fl' = [fl EXCEPT !.pc = "done",
                        !.ret = f_linear(fl.q, fl.r, fl.contrast, fl.slope)]
    /\ UNCHANGED <<in, st, fv>>

FlNext == FLinearCall

FlSpec == FlInit /\ [][FlNext]_vars

\* C5: with slope = 0, f_linear(q, r, contrast, 0) is the uniform-sphere term
\* contrast * (4/3) pi r^3 * sph_j1c(q r), for every q >= 0 and r >= 0.
C5_SlopeZero ==
    (fl.pc = "done" /\ IsZero(fl.slope)) =>
        fl.ret = VMul(fl.contrast,
                      VMul(VMul(M_4PI_3, cube(fl.r)), sph_j1c(VMul(fl.q, fl.r))))

(***************************************************************************)
(* Iq.  in holds the arguments other than q (the arrays are shared by the  *)
(* evaluations running in parallel); st[p] holds the locals of evaluation  *)
(* p, its position pc, and a record of the calls it made.                  *)
(***************************************************************************)
\* (int)x: truncation toward zero
Trunc(x) == IF x[1] >= 0 THEN x[1] \div x[2] ELSE -((-x[1]) \div x[2])

\* M_4PI_3 * cube(r) * sld * sph_j1c(q*r)
uniform(q, r, sld) == VMul(VMul(VMul(M_4PI_3, cube(r)), sld), sph_j1c(VMul(q, r)))

dr_of(a, shell) == VDiv(a.interface[shell + 1], Num(a.n_steps))

delta_of(a, shell, sld_l) ==
    VSub(IF shell = a.n_shells - 1 THEN a.sld_solvent ELSE a.sld[shell + 2], sld_l)

\* fmax(nu, 1.e-14), the fabs left out
nu_shell_of_NoFabs(a, shell) ==
    IF a.nu[shell + 1][1] < 0 THEN NuFloor ELSE fmax(a.nu[shell + 1], NuFloor)

nu_shell_of(a, shell) == fmax(fabs(a.nu[shell + 1]), NuFloor)

\* the shape rounded to the nearest integer instead of truncated
shape_shell_of_Rounded(a, shell) == Trunc(RAdd(a.shape[shell + 1], Rat(1, 2)))

shape_shell_of(a, shell) == Trunc(a.shape[shell + 1])

slope_of(sld_out, sld_in, dr) == VDiv(VSub(sld_out, sld_in), dr)

\* the intercept taken at radius 1 instead of radius r
contrast_of_NoRadius(sld_in, slope, r) == VSub(sld_in, slope)

contrast_of(sld_in, slope, r) == VSub(sld_in, VMul(slope, r))

\* f * f * 1.0e-4: the finite product is kept as its factor amp and the scale
square_scaled(f) ==
    [k |-> f.k, amp |-> IF IsFinite(f) THEN f.v ELSE PZero, scale |-> Rat(1, 10000)]

NoStep == [shell |-> -1, step |-> 0, shape |-> 0, nu |-> <<0, 0>>, z |-> Num(0),
           fraction |-> Num(0), r_in |-> Num(0), r_out |-> Num(0),
           sld_in |-> Num(0), sld_out |-> Num(0), slope |-> Num(0),
           contrast |-> Num(0)]

\* the state at the call: f = 0, r = 0, before the first test of the shell loop
Entry(q) ==
    [pc |-> "shell", q |-> q, shell |-> 0, step |-> 0, f |-> Num(0), r |-> Num(0),
     sld_l |-> Num(0), dr |-> Num(0), delta |-> Num(0), nu_shell |-> <<0, 0>>,
     shape_shell |-> 0, sld_in |-> Num(0), f2 |-> square_scaled(Num(0)),
     calls |-> <<>>, last |-> NoStep, prev |-> NoStep, ticks |-> 0]

\* step < n_steps instead of step <= n_steps
StepLoopTest_OffByOne(a, step) == step < a.n_steps

\* the test of the sub-step loop
StepLoopTest(a, step) == step <= a.n_steps

\* one pass of the shell loop up to the sub-step loop
ShellBodyOf(a, s) ==
    LET sld_l == a.sld[s.shell + 1]
        f1 == VSub(s.f, uniform(s.q, s.r, sld_l))
        r1 == VAdd(s.r, a.thickness[s.shell + 1])
        f2 == VAdd(f1, uniform(s.q, r1, sld_l))
        dr == dr_of(a, s.shell)
        skip == IsZero(dr) \/ ~StepLoopTest(a, 1)
    IN  [s EXCEPT !.f = f2, !.r = r1, !.sld_l = sld_l, !.dr = dr,
                  !.delta = delta_of(a, s.shell, sld_l),
                  !.nu_shell = nu_shell_of(a, s.shell),
                  !.shape_shell = shape_shell_of(a, s.shell),
                  !.sld_in = IF IsZero(dr) THEN s.sld_in ELSE sld_l,
                  !.step = IF IsZero(dr) THEN s.step ELSE 1,
                  !.shell = IF skip THEN s.shell + 1 ELSE s.shell,
                  !.pc = IF skip THEN "shell" ELSE "step",
                  !.calls = Append(s.calls, [blend |-> 0, f_linear |-> 0]),
                  !.ticks = s.ticks + 1]

\* one pass of the sub-step loop
SubStepOf(a, s) ==
    LET z == Frac(s.step, a.n_steps)
        fraction == blend(s.shape_shell, s.nu_shell, z)
        sld_out == VAdd(VMul(fraction, s.delta), s.sld_l)
        slope == slope_of(sld_out, s.sld_in, s.dr)
        contrast == contrast_of(s.sld_in, slope, s.r)
        f1 == VSub(s.f, f_linear(s.q, s.r, contrast, slope))
        r1 == VAdd(s.r, s.dr)
        f2 == VAdd(f1, f_linear(s.q, r1, contrast, slope))
        more == StepLoopTest(a, s.step + 1)
        n == Len(s.calls)
    IN  [s EXCEPT !.f = f2, !.r = r1, !.sld_in = sld_out, !.step = s.step + 1,
                  !.shell = IF more THEN s.shell ELSE s.shell + 1,
                  !.pc = IF more THEN "step" ELSE "shell",
                  !.calls = [s.calls EXCEPT ![n] =
                                [blend |-> @.blend + 1, f_linear |-> @.f_linear + 2]],
                  !.prev = s.last,
                  !.last = [shell |-> s.shell, step |-> s.step,
                            shape |-> s.shape_shell, nu |-> s.nu_shell, z |-> z,
                            fraction |-> fraction, r_in |-> s.r, r_out |-> r1,
                            sld_in |-> s.sld_in, sld_out |-> sld_out,
                            slope |-> slope, contrast |-> contrast],
                  !.ticks = s.ticks + 1]

\* the solvent term added instead of subtracted
SolventOf_Added(a, s) ==
    LET f1 == VAdd(s.f, uniform(s.q, s.r, a.sld_solvent))
    IN  [s EXCEPT !.f = f1, !.f2 = square_scaled(f1), !.pc = "done",
                  !.ticks = s.ticks + 1]

\* after the shell loop: the solvent term and the result
SolventOf(a, s) ==
    LET f1 == VSub(s.f, uniform(s.q, s.r, a.sld_solvent))
    IN  [s EXCEPT !.f = f1, !.f2 = square_scaled(f1), !.pc = "done",
                  !.ticks = s.ticks + 1]

\* the tests of the two loops
InShellLoop(a, s) == s.pc = "shell" /\ s.shell < a.n_shells
InStepLoop(a, s) == s.pc = "step" /\ StepLoopTest(a, s.step)
AfterShellLoop(a, s) == s.pc = "shell" /\ ~(s.shell < a.n_shells)

ShellBody(p) ==
    /\ InShellLoop(in, st[p])
    /\ st' = [st EXCEPT ![p] = ShellBodyOf(in, st[p])]
    /\ UNCHANGED <<in, fv, fl>>

\* r kept in one place for every evaluation (a static local)
SubStep_SharedR(p) ==
    /\ InStepLoop(in, st[p])
    /\ st' = [i \in DOMAIN st |->
                IF i = p THEN SubStepOf(in, st[p])
                ELSE [st[i] EXCEPT !.r = SubStepOf(in, st[p]).r]]
    /\ UNCHANGED <<in, fv, fl>>

SubStep(p) ==
    /\ InStepLoop(in, st[p])
    /\ st' = [st EXCEPT ![p] = SubStepOf(in, st[p])]
    /\ UNCHANGED <<in, fv, fl>>

Solvent(p) ==
    /\ AfterShellLoop(in, st[p])
    /\ st' = [st EXCEPT ![p] = SolventOf(in, st[p])]
    /\ UNCHANGED <<in, fv, fl>>

(***************************************************************************)
(* The profiles Iq is called with.                                         *)
(***************************************************************************)
MaxShells == 2
MaxSteps == 2

Shell(sld, thickness, interface, shape, nu) ==
    [sld |-> sld, thickness |-> thickness, interface |-> interface,
     shape |-> shape, nu |-> nu]

\* the two plain shells: a sharp one and one with a linear interface
PlainShells ==
    { Shell(Num(1), Num(1), Num(0), RInt(1), <<1, 0>>),
      Shell(Num(2), Num(1), Num(1), RInt(1), <<1, 0>>) }

\* sharp with an unknown shape; erf; power law from r = 0; reverse power law
\* with nu < 0; the exponentials with nu = 0 and |nu| below the floor; unknown
\* shapes; shapes with a fractional part
OtherShells ==
    { Shell(Num(2), Num(2), Num(0), RInt(5), <<0, 0>>),
      Shell(Num(3), Num(1), Num(1), RInt(0), <<1, 0>>),
      Shell(Num(3), Num(0), Num(1), RInt(1), <<2, 0>>),
      Shell(Num(2), Num(1), Frac(1, 2), RInt(2), <<-3, 0>>),
      Shell(Num(1), Num(1), Num(1), RInt(3), <<0, 0>>),
      Shell(Num(2), Num(1), Num(1), RInt(4), <<5, -15>>),
      Shell(Num(1), Num(1), Num(1), RInt(5), <<1, 0>>),
      Shell(Num(3), Num(1), Num(1), RInt(-1), <<1, 0>>),
      Shell(Num(2), Num(1), Num(1), Rat(47, 10), <<1, 0>>),
      Shell(Num(1), Num(1), Num(1), Rat(-1, 2), <<-2, -15>>) }

SolventValues == {Num(0), Num(1)}

\* the profiles of n shells with at most one shell that is not plain
Profiles(n) ==
    {s \in [1..n -> PlainShells \cup OtherShells] :
        Cardinality({i \in 1..n : s[i] \in OtherShells}) <= 1}

Args(shells, sld_solvent, n_steps) ==
    [n_shells |-> Len(shells), sld_solvent |-> sld_solvent,
     sld |-> [i \in DOMAIN shells |-> shells[i].sld],
     thickness |-> [i \in DOMAIN shells |-> shells[i].thickness],
     interface |-> [i \in DOMAIN shells |-> shells[i].interface],
     shape |-> [i \in DOMAIN shells |-> shells[i].shape],
     nu |-> [i \in DOMAIN shells |-> shells[i].nu],
     n_steps |-> n_steps]

Init ==
    /\ \E n \in 1..MaxShells, n_steps \in 1..MaxSteps, solv \in SolventValues :
          \E shells \in Profiles(n) :
             in = Args(shells, solv, n_steps)
    /\ \E q \in QValues : st = <<Entry(q)>>
    /\ fv = <<>>
    /\ fl = FlIdle

Next == \E p \in DOMAIN st : ShellBody(p) \/ SubStep(p) \/ Solvent(p)

Spec == Init /\ [][Next]_vars

(***************************************************************************)
(* Iq as a function: the run of one evaluation from its call to its        *)
(* return, with nothing else running.                                      *)
(***************************************************************************)
StepOf(a, s) ==
    CASE InStepLoop(a, s) -> SubStepOf(a, s)
      [] InShellLoop(a, s) -> ShellBodyOf(a, s)
      [] AfterShellLoop(a, s) -> SolventOf(a, s)

RECURSIVE IqRun(_, _)
IqRun(a, s) == IF s.pc = "done" THEN s ELSE IqRun(a, StepOf(a, s))

Iq(q, a) == IqRun(a, Entry(q)).f2

(***************************************************************************)
(* Properties of Iq.                                                       *)
(***************************************************************************)
Graded(a, i) == ~IsZero(a.interface[i])
AllSharp(a) == \A i \in 1..a.n_shells : ~Graded(a, i)
KnownShape(a, i) == Trunc(a.shape[i]) \in 0..4
Positive(x) == IsRat(x) /\ RatOf(x)[1] > 0

RECURSIVE OuterRadius(_, _)
OuterRadius(a, i) ==
    IF i = 0 THEN Num(0) ELSE VAdd(OuterRadius(a, i - 1), a.thickness[i])

NextSld(a, i) == IF i = a.n_shells THEN a.sld_solvent ELSE a.sld[i + 1]

RECURSIVE Telescoped(_, _, _)
Telescoped(q, a, i) ==
    IF i = 0 THEN Num(0)
    ELSE LET R == OuterRadius(a, i)
             vol == VMul(Frac(4, 3), VMul(VMul(R, VMul(R, R)),
                                          VMul(Frac(3, 4), M_4PI_3)))
         IN  VAdd(Telescoped(q, a, i - 1),
                  VMul(VSub(a.sld[i], NextSld(a, i)),
                       VMul(vol, sph_j1c(VMul(q, R)))))

\* C1: with every interfaceWidth 0 and q > 0, the amplitude Iq accumulates is
\* the telescoped sum over the shells of (sld[i] - sld[i+1]) * (4/3) pi R_i^3 *
\* sph_j1c(q R_i), sld[n_shells] standing for the solvent; for one shell it is
\* (sld[0] - sldSolvent) * (4/3) pi thickness[0]^3 * sph_j1c(q thickness[0]);
\* and the intensity returned is f * f * 1e-4.
C1_Telescoped ==
    \A p \in DOMAIN st :
        (st[p].pc = "done" /\ AllSharp(in) /\ Positive(st[p].q)) =>
            /\ st[p].f = Telescoped(st[p].q, in, in.n_shells)
            /\ in.n_shells = 1 =>
                  st[p].f = VMul(VSub(in.sld[1], in.sld_solvent),
                                 VMul(VMul(M_4PI_3, cube(in.thickness[1])),
                                      sph_j1c(VMul(st[p].q, in.thickness[1]))))
            /\ st[p].f2 = [k |-> "fin", amp |-> st[p].f.v, scale |-> <<1, 10000>>]

C1_Witness ==
    \E p \in DOMAIN st :
        /\ st[p].pc = "done" /\ AllSharp(in) /\ Positive(st[p].q)
        /\ in.n_shells = 2 /\ in.sld[1] # in.sld[2]
        /\ Cardinality(DOMAIN st[p].f.v) = 2

\* C2: if a shell with interfaceWidth # 0 has a shape code outside 0..4, Iq
\* returns not-a-number: nothing after blend overwrites or masks it.
C2_UnknownShapeIsNaN ==
    \A p \in DOMAIN st :
        (st[p].pc = "done"
            /\ \E i \in 1..in.n_shells : Graded(in, i) /\ ~KnownShape(in, i))
        => st[p].f2.k = "nan"

C2_Witness ==
    \E p \in DOMAIN st :
        /\ st[p].pc = "done" /\ in.n_shells = 2
        /\ Graded(in, 1) /\ Trunc(in.shape[1]) = 5
        /\ Graded(in, 2) /\ KnownShape(in, 2)
        /\ st[p].f2.k = "nan"

\* C3 as claimed: every shape value that is not exactly 0, 1, 2, 3 or 4, on any
\* shell, makes Iq return not-a-number.
C3_Original ==
    \A p \in DOMAIN st :
        (st[p].pc = "done"
            /\ \E i \in 1..in.n_shells : in.shape[i] \notin {RInt(k) : k \in 0..4})
        => st[p].f2.k = "nan"

Normalised(a) ==
    [a EXCEPT !.shape = [i \in DOMAIN a.shape |->
                            IF Graded(a, i) THEN RInt(Trunc(a.shape[i])) ELSE R0]]

\* C3 as amended: a shape value whose truncation toward zero is outside 0..4,
\* on a shell with interfaceWidth # 0, makes Iq return not-a-number; the
\* fractional part of a shape value, and the shape value of a shell with
\* interfaceWidth = 0, do not change the result.
C3_Amended ==
    \A p \in DOMAIN st :
        st[p].pc = "done" =>
            /\ (\E i \in 1..in.n_shells : Graded(in, i) /\ ~KnownShape(in, i))
                  => st[p].f2.k = "nan"
            /\ st[p].f2 = Iq(st[p].q, Normalised(in))

C3_Witness ==
    \E p \in DOMAIN st :
        /\ st[p].pc = "done"
        /\ \E i \in 1..in.n_shells : Graded(in, i) /\ in.shape[i] = Rat(47, 10)
        /\ \E i \in 1..in.n_shells : ~Graded(in, i) /\ in.shape[i] = RInt(1)
        /\ st[p].f2.k = "fin"

\* C4: with known shapes Iq returns a finite intensity, also at q = 0 and
\* when an interface starts at r = 0: f_linear does not divide by zero.
C4_FiniteAtZero ==
    \A p \in DOMAIN st :
        (st[p].pc = "done"
            /\ \A i \in 1..in.n_shells : Graded(in, i) => KnownShape(in, i))
        => st[p].f2.k = "fin"

\* C6: the shell loop runs n_shells times; a shell with interfaceWidth # 0
\* makes n_steps blend calls and 2 * n_steps f_linear calls, any other shell
\* none, and the radius then advances by its thickness only; Iq takes a
\* number of steps fixed by its arguments, can always take the next one, and
\* returns after the last.
CallsOf(a, i) == IF Graded(a, i) THEN a.n_steps ELSE 0

RECURSIVE Budget(_, _)
Budget(a, i) == IF i = 0 THEN 1 ELSE Budget(a, i - 1) + 1 + CallsOf(a, i)

RECURSIVE TotalRadius(_, _)
TotalRadius(a, i) ==
    IF i = 0 THEN Num(0)
    ELSE VAdd(TotalRadius(a, i - 1),
              IF Graded(a, i) THEN VAdd(a.thickness[i], a.interface[i])
              ELSE a.thickness[i])

C6_FixedIterations ==
    \A p \in DOMAIN st :
        LET s == st[p] IN
        /\ s.ticks <= Budget(in, in.n_shells)
        /\ s.pc # "done" =>
              InShellLoop(in, s) \/ InStepLoop(in, s) \/ AfterShellLoop(in, s)
        /\ s.pc = "done" =>
              /\ s.ticks = Budget(in, in.n_shells)
              /\ Len(s.calls) = in.n_shells
              /\ s.shell = in.n_shells
        /\ s.pc = "shell" => s.r = TotalRadius(in, s.shell)
        /\ \A i \in 1..Len(s.calls) :
              i <= s.shell =>
                 /\ s.calls[i].blend = CallsOf(in, i)
                 /\ s.calls[i].f_linear = 2 * CallsOf(in, i)

C6_Witness ==
    \E p \in DOMAIN st :
        /\ st[p].pc = "done" /\ in.n_shells = 2 /\ in.n_steps = 2
        /\ Graded(in, 1) /\ ~Graded(in, 2)
        /\ st[p].calls = <<[blend |-> 2, f_linear |-> 4], [blend |-> 0, f_linear |-> 0]>>

\* C9 as claimed, for the sub-step last made: within every interface the
\* segment contrast + slope * r' is sld_in at the inner radius and sld_out at
\* the outer radius (inner radius + dr); step 1 starts at sld[shell]; sld_in of
\* step k+1 is sld_out of step k; and where blend(shape, nu, 1) = 1, sld_out of
\* step n_steps is the next shell's sld, or the solvent's after the last shell.
ProfileOf(s) ==
    LET L == s.last
        P == s.prev
    IN  /\ L.step = 1 => L.sld_in = in.sld[L.shell + 1]
        /\ VAdd(L.contrast, VMul(L.slope, L.r_in)) = L.sld_in
        /\ VAdd(L.contrast, VMul(L.slope, L.r_out)) = L.sld_out
        /\ L.r_out = VAdd(L.r_in, VDiv(in.interface[L.shell + 1], Num(in.n_steps)))
        /\ L.step >= 2 =>
              /\ P.shell = L.shell /\ P.step = L.step - 1
              /\ L.sld_in = P.sld_out
        /\ (L.step = in.n_steps /\ blend(L.shape, L.nu, Num(1)) = Num(1)) =>
              L.sld_out = NextSld(in, L.shell + 1)

C9_Original ==
    \A p \in DOMAIN st : st[p].last.step >= 1 => ProfileOf(st[p])

\* C9 as amended: the same, within every interface whose blend values so far
\* are numbers (not not-a-number, as they are for a shape code outside 0..4).
C9_Amended ==
    \A p \in DOMAIN st :
        (st[p].last.step >= 1
            /\ IsFinite(st[p].last.fraction) /\ IsFinite(st[p].last.sld_in))
        => ProfileOf(st[p])

C9_Witness ==
    \E p \in DOMAIN st :
        /\ st[p].last.step = 2 /\ in.n_steps = 2 /\ st[p].last.shell = 0
        /\ in.n_shells = 2
        /\ st[p].last.shape = 3
        /\ st[p].last.sld_out = in.sld[2]
        /\ st[p].last.sld_in # st[p].last.sld_out
        /\ ~IsRat(st[p].last.sld_in)

\* C10: the sharpness every blend call gets is max(|nu[shell]|, 1e-14): never
\* zero, never below 1e-14, for nu[shell] zero or negative too.
C10_SharpnessFloor ==
    \A p \in DOMAIN st :
        LET L == st[p].last IN
        L.step >= 1 =>
            LET nu == in.nu[L.shell + 1]
                mag == <<Abs(nu[1]), nu[2]>>
            IN  /\ L.nu[1] > 0
                /\ ~DLess(L.nu, NuFloor)
                /\ ~DLess(L.nu, mag)
                /\ L.nu \in {mag, NuFloor}

C10_Witness ==
    \E p \in DOMAIN st :
        /\ st[p].last.step >= 1 /\ in.nu[st[p].last.shell + 1] = <<-3, 0>>
        /\ st[p].last.nu = <<3, 0>>

(***************************************************************************)
(* form_volume: fv holds its locals i and r, its position and its result;  *)
(* the arguments are in.n_shells, in.thickness and in.interface.           *)
(***************************************************************************)
FvEntry == [pc |-> "loop", i |-> 0, r |-> Num(0), ret |-> Num(0)]

\* r += thickness[i], the interface left out
FvLoopOf_NoInterface(thickness, interface, s) ==
    [s EXCEPT !.r = VAdd(s.r, thickness[s.i + 1]), !.i = s.i + 1]

FvLoopOf(thickness, interface, s) ==
    [s EXCEPT !.r = VAdd(s.r, VAdd(thickness[s.i + 1], interface[s.i + 1])),
              !.i = s.i + 1]

FvReturnOf(s) == [s EXCEPT !.ret = VMul(M_4PI_3, cube(s.r)), !.pc = "done"]

FvLoop ==
    /\ fv.pc = "loop"
    /\ fv.i < in.n_shells
    /\ fv' = FvLoopOf(in.thickness, in.interface, fv)
    /\ UNCHANGED <<in, st, fl>>

FvReturn ==
    /\ fv.pc = "loop"
    /\ ~(fv.i < in.n_shells)
    /\ fv' = FvReturnOf(fv)
    /\ UNCHANGED <<in, st, fl>>

RECURSIVE FvRun(_, _, _, _)
FvRun(n_shells, thickness, interface, s) ==
    IF s.pc = "done" THEN s
    ELSE IF s.i < n_shells
         THEN FvRun(n_shells, thickness, interface, FvLoopOf(thickness, interface, s))
         ELSE FvRun(n_shells, thickness, interface, FvReturnOf(s))

form_volume(n_shells, thickness, interface) ==
    FvRun(n_shells, thickness, interface, FvEntry).ret

ThickValues == {Num(0), Frac(1, 2), Num(2)}
WidthValues == {Num(0), Num(1)}
LargerValues == {Num(0), Frac(1, 2), Num(1), Num(2), Num(3)}

VolShells ==
    {Shell(Num(1), t, w, RInt(1), <<1, 0>>) : t \in ThickValues, w \in WidthValues}

VolInit ==
    /\ \E n \in 0..MaxShells :
          \E shells \in [1..n -> VolShells] : in = Args(shells, Num(0), 1)
    /\ st = <<>>
    /\ fv = FvEntry
    /\ fl = FlIdle

VolNext == FvLoop \/ FvReturn

VolSpec == VolInit /\ [][VolNext]_vars

RECURSIVE RadiusSum(_, _)
RadiusSum(a, i) ==
    IF i = 0 THEN R0
    ELSE RAdd(RadiusSum(a, i - 1),
              RAdd(RatOf(a.thickness[i]), RatOf(a.interface[i])))

\* x <= y for two multiples of M_4PI_3
VolLeq(x, y) ==
    LET m == CHOOSE k \in DOMAIN M_4PI_3.v : TRUE
    IN  /\ IsFinite(x) /\ IsFinite(y)
        /\ DOMAIN x.v \subseteq {m} /\ DOMAIN y.v \subseteq {m}
        /\ RLeq(PCoef(x.v, m), PCoef(y.v, m))

VLeq(x, y) == RLeq(RatOf(x), RatOf(y))

\* C7: form_volume returns (4/3) pi r^3 for r the sum of thickness[i] +
\* interface[i] over the shells; 0 for no shell; and no less when one
\* thickness[i] or interface[i] is increased.
C7_Volume ==
    fv.pc = "done" =>
        /\ fv.ret = VMul(M_4PI_3, Fin(PConst(RPow(RadiusSum(in, in.n_shells), 3))))
        /\ in.n_shells = 0 => IsZero(fv.ret)
        /\ \A i \in 1..in.n_shells : \A v \in LargerValues :
              /\ VLeq(in.thickness[i], v) =>
                    VolLeq(fv.ret,
                           form_volume(in.n_shells,
                                       [in.thickness EXCEPT ![i] = v], in.interface))
              /\ VLeq(in.interface[i], v) =>
                    VolLeq(fv.ret,
                           form_volume(in.n_shells, in.thickness,
                                       [in.interface EXCEPT ![i] = v]))

C7_Witness ==
    /\ fv.pc = "done" /\ in.n_shells = 2
    /\ in.thickness[1] = Frac(1, 2) /\ in.interface[2] = Num(1)
    /\ ~VolLeq(form_volume(2, [in.thickness EXCEPT ![1] = Num(2)], in.interface),
               fv.ret)

(***************************************************************************)
(* Two evaluations of Iq run in parallel on the same arrays, their steps   *)
(* interleaved in any order.                                               *)
(***************************************************************************)
ParShells == PlainShells

ParQValues == {<<Frac(1, 2), Frac(1, 1)>>, <<Frac(1, 1), Frac(1, 1)>>,
               <<Frac(0, 1), Frac(1, 2)>>}

ParInit ==
    /\ \E n \in 1..MaxShells, n_steps \in 1..MaxSteps :
          \E shells \in [1..n -> ParShells] : in = Args(shells, Num(1), n_steps)
    /\ \E qs \in ParQValues : st = <<Entry(qs[1]), Entry(qs[2])>>
    /\ fv = <<>>
    /\ fl = FlIdle

ParSpec == ParInit /\ [][Next]_vars

\* C8: evaluations run in parallel on the same arrays, their steps
\* interleaved in any order, each return the value (and end with the locals)
\* they do when run alone.
C8_Independent ==
    \A p \in DOMAIN st :
        st[p].pc = "done" => st[p] = IqRun(in, Entry(st[p].q))

C8_Witness ==
    /\ st[1].pc = "done" /\ st[2].pc = "step" /\ st[2].ticks >= 2
    /\ st[1].q # st[2].q
    /\ st[1].f2.k = "fin"
====
